---- MODULE Spec2Model ----
(***************************************************************************)
(* Model of qiskit_nature/deprecation.py: the deduplicated warning         *)
(* emitter (warn_deprecated and the _DEPRECATED_OBJECTS set), the          *)
(* argument-rename decorator (deprecate_arguments / _rename_kwargs), the   *)
(* method and function decorators with their per-wrapper _warned flag,     *)
(* and the self-warning enumeration (DeprecatedEnum / DeprecatedEnumMeta). *)
(*                                                                         *)
(* Every operation runs to completion on the caller's thread, so each      *)
(* public call is one atomic action (serialized execution).  The host      *)
(* warning channel (warnings.warn) is modelled as an append to the log     *)
(* `emitted`; it does not raise.                                           *)
(***************************************************************************)
EXTENDS Integers, Sequences, FiniteSets, TLC

(***************************************************************************)
(* Bounds of the model.                                                    *)
(***************************************************************************)
\* number of public calls (warn calls, wrapper invocations, enum accesses)
MaxCalls == 3
\* number of calls of deprecate_arguments wrappers (their inputs are many)
MaxArgCalls == 2

(***************************************************************************)
(* Values.                                                                 *)
(***************************************************************************)
\* Python's None (an absent optional argument)
None == "<None>"

\* class DeprecatedType(Enum): member names
DeprecatedType ==
  {"PACKAGE", "ENUM", "CLASS", "METHOD", "FUNCTION", "ARGUMENT", "PROPERTY"}

\* DeprecatedType.<member>.value
TypeValue(t) ==
  CASE t = "PACKAGE"  -> "package"
    [] t = "ENUM"     -> "enum"
    [] t = "CLASS"    -> "class"
    [] t = "METHOD"   -> "method"
    [] t = "FUNCTION" -> "function"
    [] t = "ARGUMENT" -> "argument"
    [] t = "PROPERTY" -> "property"

\* class _DeprecatedObject(NamedTuple): six fields, compared by value
DeprecatedObject(version, old_type, old_name, new_type, new_name, additional_msg) ==
  [version |-> version, old_type |-> old_type, old_name |-> old_name,
   new_type |-> new_type, new_name |-> new_name, additional_msg |-> additional_msg]

\* Python truthiness of an Optional[str]: None and "" are falsy; before it the
\* variant `is not None`, for which "" counts
TruthyNotNone(s) == s # None

Truthy(s) == s # None /\ s # ""

(***************************************************************************)
(* Inputs of warn_deprecated: one reference call and every call that       *)
(* differs from it in exactly one of the six fields.                       *)
(***************************************************************************)
Versions == {"0.5.0", "0.6.0"}
OldTypes == {"CLASS", "METHOD"}
OldNames == {"Foo", "Baz"}
NewTypes == {None, "CLASS"}
NewNames == {None, "Bar", "Foo"}
AdditionalMsgs == {None, "", "See docs."}
StackLevels == {2, 3}

BaseObject == DeprecatedObject("0.5.0", "CLASS", "Foo", "CLASS", "Bar", "See docs.")

FieldNames ==
  {"version", "old_type", "old_name", "new_type", "new_name", "additional_msg"}

\* the fields in which two records differ
DiffFields(r1, r2) == {f \in FieldNames : r1[f] # r2[f]}

AllObjects ==
  [version : Versions, old_type : OldTypes, old_name : OldNames,
   new_type : NewTypes, new_name : NewNames, additional_msg : AdditionalMsgs]

WarnInputs == {r \in AllObjects : Cardinality(DiffFields(r, BaseObject)) <= 1}

(***************************************************************************)
(* State.                                                                  *)
(***************************************************************************)
VARIABLES
  DEPRECATED_OBJECTS, \* the module-level set _DEPRECATED_OBJECTS
  emitted,            \* warnings handed to warnings.warn, in order
  requested,          \* history: the records warn_deprecated was called with
  wrappers,           \* decorated methods/functions: name -> [msg, warned, ...]
  enums,              \* defined enumerations: name -> members and hook counts
  last,               \* the most recent public call: its inputs and outcome
  ncalls,             \* number of public calls made so far
  threads,            \* per thread: the statement it is at inside a call, if any
  host                \* the host: whether calls are serialized, whether
                      \* warnings.warn has raised so far

vars ==
  <<DEPRECATED_OBJECTS, emitted, requested, wrappers, enums, last, ncalls, threads, host>>

\* one warning as the host channel receives it: warnings.warn(msg, category, stacklevel)
\* `via` and `about` name the emitting operation and the deprecation it is about
Warning(msg, stacklevel, via, about, callable) ==
  [msg |-> msg, category |-> "DeprecationWarning", stacklevel |-> stacklevel,
   via |-> via, about |-> about, callable |-> callable]

(***************************************************************************)
(* 4.1  warn_deprecated                                                    *)
(***************************************************************************)
\* `if obj in _DEPRECATED_OBJECTS` with the always-new variant before it
AlreadyAddedNever(obj, registry) == FALSE

AlreadyAdded(obj, registry) == obj \in registry

\* message built by warn_deprecated, with the variant that leaves out the final
\* `msg += "."` before it
WarnDeprecatedMsgUnterminated(version, old_type, old_name, new_type, new_name, additional_msg) ==
  LET m0 == "The " \o old_name \o " " \o TypeValue(old_type)
              \o " is deprecated as of version " \o version \o " "
              \o "and will be removed no sooner than 3 months after the release"
      m1 == IF new_type # None /\ Truthy(new_name)
              THEN m0 \o ". Instead use the " \o new_name \o " " \o TypeValue(new_type)
              ELSE m0
  IN  IF Truthy(additional_msg) THEN m1 \o " " \o additional_msg ELSE m1

WarnDeprecatedMsg(version, old_type, old_name, new_type, new_name, additional_msg) ==
  LET m0 == "The " \o old_name \o " " \o TypeValue(old_type)
              \o " is deprecated as of version " \o version \o " "
              \o "and will be removed no sooner than 3 months after the release"
      m1 == IF new_type # None /\ Truthy(new_name)
              THEN m0 \o ". Instead use the " \o new_name \o " " \o TypeValue(new_type)
              ELSE m0
      m2 == IF Truthy(additional_msg) THEN m1 \o " " \o additional_msg ELSE m1
  IN  m2 \o "."

\* the registry after warn_deprecated(...), with the variant that keeps only the
\* latest record before it
WarnDeprecatedRegistryLatest(registry, obj) ==
  IF AlreadyAdded(obj, registry) THEN registry ELSE {obj}

WarnDeprecatedRegistry(registry, obj) ==
  IF AlreadyAdded(obj, registry) THEN registry ELSE registry \cup {obj}

\* the warnings warn_deprecated(...) hands to the host channel
WarnDeprecatedWarning(obj, stack_level) ==
  Warning(WarnDeprecatedMsg(obj.version, obj.old_type, obj.old_name,
                            obj.new_type, obj.new_name, obj.additional_msg),
          stack_level + 1, "warn_deprecated", obj, None)

WarnDeprecatedEmits(registry, obj, stack_level) ==
  IF AlreadyAdded(obj, registry)
    THEN << >>
    ELSE << WarnDeprecatedWarning(obj, stack_level) >>

warn_deprecated(obj, stack_level) ==
  /\ ncalls < MaxCalls
  /\ DEPRECATED_OBJECTS' = WarnDeprecatedRegistry(DEPRECATED_OBJECTS, obj)
  /\ emitted' = emitted \o WarnDeprecatedEmits(DEPRECATED_OBJECTS, obj, stack_level)
  /\ requested' = requested \cup {obj}
  /\ last' = [op |-> "warn_deprecated", obj |-> obj, stack_level |-> stack_level,
              nwarn |-> Len(WarnDeprecatedEmits(DEPRECATED_OBJECTS, obj, stack_level))]
  /\ ncalls' = ncalls + 1
  /\ UNCHANGED <<wrappers, enums, threads, host>>

\* the stack level warn_deprecated_same_type_name passes on (`stack_level + 1`),
\* with the variant that passes its own level on unchanged before it
ForwardedStackLevelSame(stack_level) == stack_level

ForwardedStackLevel(stack_level) == stack_level + 1

\* warn_deprecated_same_type_name forwards to warn_deprecated
warn_deprecated_same_type_name(version, new_type, new_name, additional_msg, stack_level) ==
  LET obj == DeprecatedObject(version, new_type, new_name, new_type, new_name, additional_msg)
      forwarded == ForwardedStackLevel(stack_level)
  IN  /\ ncalls < MaxCalls
      /\ DEPRECATED_OBJECTS' = WarnDeprecatedRegistry(DEPRECATED_OBJECTS, obj)
      /\ emitted' = emitted \o WarnDeprecatedEmits(DEPRECATED_OBJECTS, obj, forwarded)
      /\ requested' = requested \cup {obj}
      /\ last' = [op |-> "warn_deprecated_same_type_name", obj |-> obj,
                  stack_level |-> stack_level,
                  nwarn |-> Len(WarnDeprecatedEmits(DEPRECATED_OBJECTS, obj, forwarded))]
      /\ ncalls' = ncalls + 1
      /\ UNCHANGED <<wrappers, enums, threads, host>>

(***************************************************************************)
(* 4.2  deprecate_arguments and _rename_kwargs                             *)
(***************************************************************************)
\* keyword names and values a caller may supply; positional argument lists
Keys == {"a", "b", "c", "d"}
ArgLists == {<< >>, <<7>>}

\* two shapes of call: positional arguments, and the value given to each keyword
\* name that is supplied (no value used twice, so that a value ending under the
\* wrong name shows)
CallShapes ==
  { [args |-> << >>,
     values |-> [k \in Keys |->
                   CASE k = "a" -> 5 [] k = "b" -> 6 [] k = "c" -> 8 [] k = "d" -> 9]],
    [args |-> <<7>>,
     values |-> [k \in Keys |->
                   CASE k = "a" -> 6 [] k = "b" -> 5 [] k = "c" -> 9 [] k = "d" -> 8]] }

\* the calls a caller may make: a shape and the set of keyword names supplied
ArgCalls ==
  {[args |-> sh.args, kwargs |-> [k \in ks |-> sh.values[k]]] :
     sh \in CallShapes, ks \in SUBSET Keys}

\* the callables of the program that deprecate_arguments decorates, each with
\* the decorator's arguments; kwarg_map is a dict, iterated in insertion order
ArgDecorated ==
  { [func_name |-> "f", version |-> "0.5.0", kwarg_map |-> << <<"a", "b">> >>,
     additional_msg |-> None, stack_level |-> 3],
    [func_name |-> "g", version |-> "0.5.0", kwarg_map |-> << <<"a", "b">> >>,
     additional_msg |-> None, stack_level |-> 3],
    [func_name |-> "h", version |-> "0.5.0",
     kwarg_map |-> << <<"a", "b">>, <<"c", "d">> >>,
     additional_msg |-> "See docs.", stack_level |-> 3],
    [func_name |-> "k", version |-> "0.6.0",
     kwarg_map |-> << <<"a", "b">>, <<"b", "c">> >>,
     additional_msg |-> None, stack_level |-> 3],
    [func_name |-> "p", version |-> "0.6.0",
     kwarg_map |-> << <<"b", "c">>, <<"a", "b">> >>,
     additional_msg |-> None, stack_level |-> 3] }

\* what the wrapped callable returns: a value that depends on everything it observes
Func(name, args, kwargs) == [by |-> name, args |-> args, kwargs |-> kwargs]

\* kwargs[new_arg] = kwargs.pop(old_arg), with the variant that keeps the old key
PopInsertKeepOld(kwargs, old_arg, new_arg) ==
  [k \in DOMAIN kwargs \cup {new_arg} |-> IF k = new_arg THEN kwargs[old_arg] ELSE kwargs[k]]

PopInsert(kwargs, old_arg, new_arg) ==
  [k \in (DOMAIN kwargs \ {old_arg}) \cup {new_arg} |->
     IF k = new_arg THEN kwargs[old_arg] ELSE kwargs[k]]

\* the message _rename_kwargs builds for one renamed argument
RenameMsg(version, func_name, old_arg, new_arg, additional_msg) ==
  LET m0 == func_name \o ": the " \o old_arg \o " " \o TypeValue("ARGUMENT")
              \o " is deprecated " \o "as of version " \o version
              \o " and will be removed no sooner "
              \o "than 3 months after the release. Instead use the "
              \o new_arg \o " " \o TypeValue("ARGUMENT")
      m1 == IF Truthy(additional_msg) THEN m0 \o " " \o additional_msg ELSE m0
  IN  m1 \o "."

\* the TypeError text of _rename_kwargs
BothMsg(func_name, new_arg, old_arg) ==
  func_name \o " received both " \o new_arg \o " and " \o old_arg \o " (deprecated)."

\* the record the spec says identifies a renamed argument in the Registry
ArgumentObject(version, old_arg, new_arg, additional_msg) ==
  DeprecatedObject(version, "ARGUMENT", old_arg, "ARGUMENT", new_arg, additional_msg)

\* `if new_arg in kwargs:` of _rename_kwargs, with the variant that never finds
\* the new name before it
NewArgSuppliedNever(kwargs, new_arg) == FALSE

NewArgSupplied(kwargs, new_arg) == new_arg \in DOMAIN kwargs

\* _rename_kwargs: the loop over kwarg_map.items() from pair i on, `kwargs` being
\* the dict as rewritten so far and `warns` the warnings emitted so far
RECURSIVE RenameLoop(_, _, _, _, _, _, _, _)
RenameLoop(version, func_name, kwargs, kwarg_map, additional_msg, stack_level, i, warns) ==
  IF i > Len(kwarg_map)
    THEN [raised |-> FALSE, error |-> None, kwargs |-> kwargs, warns |-> warns]
    ELSE
      LET old_arg == kwarg_map[i][1]
          new_arg == kwarg_map[i][2]
      IN  IF old_arg \in DOMAIN kwargs
            THEN IF NewArgSupplied(kwargs, new_arg)
                   THEN [raised |-> TRUE, error |-> BothMsg(func_name, new_arg, old_arg),
                         kwargs |-> kwargs, warns |-> warns]
                   ELSE RenameLoop(version, func_name,
                                   PopInsert(kwargs, old_arg, new_arg),
                                   kwarg_map, additional_msg, stack_level, i + 1,
                                   Append(warns,
                                          Warning(RenameMsg(version, func_name, old_arg,
                                                            new_arg, additional_msg),
                                                  stack_level, "deprecate_arguments",
                                                  ArgumentObject(version, old_arg, new_arg,
                                                                 additional_msg),
                                                  func_name)))
            ELSE RenameLoop(version, func_name, kwargs, kwarg_map, additional_msg,
                            stack_level, i + 1, warns)

rename_kwargs(version, func_name, kwargs, kwarg_map, additional_msg, stack_level) ==
  RenameLoop(version, func_name, kwargs, kwarg_map, additional_msg, stack_level, 1, << >>)

\* `func(*args, **kwargs)`: the positional arguments the wrapper forwards, with
\* the variant that forwards the keyword arguments only
ForwardedArgsDropped(args) == << >>

ForwardedArgs(args) == args

\* the wrapper of deprecate_arguments: `if kwargs: _rename_kwargs(...)`, then the call
ArgWrapperOutcome(w, args, kwargs) ==
  LET r == IF DOMAIN kwargs # {}
             THEN rename_kwargs(w.version, w.func_name, kwargs, w.kwarg_map,
                                w.additional_msg, w.stack_level)
             ELSE [raised |-> FALSE, error |-> None, kwargs |-> kwargs, warns |-> << >>]
  IN  [raised |-> r.raised,
       error |-> r.error,
       warns |-> r.warns,
       body_runs |-> IF r.raised THEN << >>
                     ELSE << [self |-> None, args |-> ForwardedArgs(args),
                              kwargs |-> r.kwargs] >>,
       ret |-> IF r.raised THEN << >>
               ELSE << Func(w.func_name, ForwardedArgs(args), r.kwargs) >>]

deprecate_arguments_wrapper(w, args, kwargs) ==
  LET out == ArgWrapperOutcome(w, args, kwargs)
  IN  /\ ncalls < MaxArgCalls
      /\ emitted' = emitted \o out.warns
      /\ last' = [op |-> "deprecate_arguments", wrapper |-> w, args |-> args,
                  kwargs |-> kwargs, raised |-> out.raised, error |-> out.error,
                  warns |-> out.warns, body_runs |-> out.body_runs, ret |-> out.ret,
                  nwarn |-> Len(out.warns)]
      /\ ncalls' = ncalls + 1
      /\ UNCHANGED <<DEPRECATED_OBJECTS, requested, wrappers, enums, threads, host>>

(***************************************************************************)
(* 4.3  deprecate_method and deprecate_function                            *)
(***************************************************************************)
\* the callables of the program these decorators wrap, each with the decorator's
\* arguments: method m of class A and method m of class B carry identical
\* version, new_type and new_name (and the same __name__); f is a function
Decorated ==
  { [id |-> "A.m", kind |-> "METHOD", name |-> "m", version |-> "0.5.0",
     new_type |-> "METHOD", new_name |-> "new_m", additional_msg |-> None,
     stack_level |-> 2],
    [id |-> "B.m", kind |-> "METHOD", name |-> "m", version |-> "0.5.0",
     new_type |-> "METHOD", new_name |-> "new_m", additional_msg |-> None,
     stack_level |-> 2],
    [id |-> "f", kind |-> "FUNCTION", name |-> "f", version |-> "0.5.0",
     new_type |-> "CLASS", new_name |-> "Bar", additional_msg |-> "See docs.",
     stack_level |-> 2] }

\* receivers of the method variant
Receivers == {"x", "y"}

\* msg computed by decorator(method) / decorator(func) at wrap time
DecoratorMsg(kind, name, version, new_type, new_name, additional_msg) ==
  LET m0 == "The " \o name \o " " \o TypeValue(kind) \o " is deprecated "
              \o "as of version " \o version \o " and will be removed no sooner "
              \o "than 3 months after the release. Instead use the "
              \o new_name \o " " \o TypeValue(new_type)
      m1 == IF Truthy(additional_msg) THEN m0 \o " " \o additional_msg ELSE m0
  IN  m1 \o "."

\* the record warn_deprecated would use for the same deprecation
DecoratedObject(d) ==
  DeprecatedObject(d.version, d.kind, d.name, d.new_type, d.new_name, d.additional_msg)

\* decorator(method) / decorator(func): builds msg, sets wrapper._warned = False
\* (`calls` is history: the number of invocations of the wrapper so far)
NewWrapper(d) ==
  [msg |-> DecoratorMsg(d.kind, d.name, d.version, d.new_type, d.new_name,
                        d.additional_msg),
   warned |-> FALSE, d |-> d, calls |-> 0]

decorator(d) ==
  /\ d.id \notin DOMAIN wrappers
  /\ wrappers' = [x \in DOMAIN wrappers \cup {d.id} |->
                    IF x = d.id THEN NewWrapper(d) ELSE wrappers[x]]
  /\ last' = [op |-> "decorator", wrapper |-> d.id]
  /\ UNCHANGED <<DEPRECATED_OBJECTS, emitted, requested, enums, ncalls, threads, host>>

\* `if not wrapper._warned`, with two variants before it: one ignores the flag,
\* one also looks the deprecation up in _DEPRECATED_OBJECTS
ShouldWarnAlways(w) == TRUE

ShouldWarnRegistry(w) == ~ w.warned /\ DecoratedObject(w.d) \notin DEPRECATED_OBJECTS

ShouldWarn(w) == ~ w.warned

\* wrapper._warned after the warn-check, with the variant that never sets it
WarnedAfterUnset(w) == w.warned

WarnedAfter(w) == IF ShouldWarn(w) THEN TRUE ELSE w.warned

\* the warnings one invocation of the wrapper hands to the host channel
WrapperWarning(w) ==
  Warning(w.msg, w.d.stack_level,
          IF w.d.kind = "METHOD" THEN "deprecate_method" ELSE "deprecate_function",
          DecoratedObject(w.d), w.d.id)

WrapperEmits(w) == IF ShouldWarn(w) THEN << WrapperWarning(w) >> ELSE << >>

\* the calls of the wrapped callable one invocation makes
\* (`return method(self, *args, **kwargs)`, `return func(*args, **kwargs)`),
\* with the variant that returns without the call when it warned before it
WrapperBodyRunsSkippedOnWarn(w, self, args, kwargs) ==
  IF ShouldWarn(w) THEN << >> ELSE << [self |-> self, args |-> args, kwargs |-> kwargs] >>

WrapperBodyRuns(w, self, args, kwargs) ==
  << [self |-> self, args |-> args, kwargs |-> kwargs] >>

\* the wrapper of deprecate_method (self = receiver) or deprecate_function (self = None)
wrapper(id, self, args, kwargs) ==
  LET w == wrappers[id]
      runs == WrapperBodyRuns(w, self, args, kwargs)
  IN  /\ ncalls < MaxCalls
      /\ emitted' = emitted \o WrapperEmits(w)
      /\ wrappers' = [wrappers EXCEPT ![id].warned = WarnedAfter(w),
                                       ![id].calls = @ + 1]
      /\ last' = [op |-> "wrapper", wrapper |-> id, self |-> self, args |-> args,
                  kwargs |-> kwargs,
                  body_runs |-> runs,
                  ret |-> [i \in 1..Len(runs) |->
                             Func(id, <<runs[i].self>> \o runs[i].args, runs[i].kwargs)],
                  nwarn |-> Len(WrapperEmits(w))]
      /\ ncalls' = ncalls + 1
      /\ UNCHANGED <<DEPRECATED_OBJECTS, requested, enums, threads, host>>

(***************************************************************************)
(* 4.4  DeprecatedEnum and DeprecatedEnumMeta                              *)
(***************************************************************************)
\* the enumerations the program defines from DeprecatedEnum with metaclass
\* DeprecatedEnumMeta: one supplies deprecate(), one does not
EnumDefs ==
  { [name |-> "WithHook", own_deprecate |-> TRUE,
     members |-> {"A", "B"}, value |-> [m \in {"A", "B"} |-> IF m = "A" THEN 1 ELSE 2]],
    [name |-> "NoHook", own_deprecate |-> FALSE,
     members |-> {"A"}, value |-> [m \in {"A"} |-> 1]] }

\* names and values an access may use: member names, a non-member attribute of
\* the type, an unknown name; member values and an unknown value
AttributeNames(en) == en.members \cup {"__name__"}
LookupNames(en) == en.members \cup {"Z"}
LookupValues == {1, 2, 9}

\* DeprecatedEnum derives from Enum, whose metaclass EnumMeta is not ABCMeta:
\* @abstractmethod marks deprecate but nothing refuses a class that lacks it
AbstractMethodsEnforced == FALSE

\* member.deprecate as DeprecatedEnum.__new__ resolves it: the variant's own
\* method, or the inherited body of DeprecatedEnum.deprecate (`pass`)
ResolveDeprecate(def) == IF def.own_deprecate THEN "own" ELSE "base"

\* the class as its creation leaves it (`hook_runs`, `returned` and `kinds` are
\* history: hook runs, members handed out and the kinds of access, per member)
NewEnum(def) ==
  [members |-> def.members,
   value |-> def.value,
   show_deprecate |-> [m \in def.members |-> ResolveDeprecate(def)],
   hook_runs |-> [m \in def.members |-> 0],
   returned |-> [m \in def.members |-> 0],
   kinds |-> [m \in def.members |-> {}]]

\* class creation: every member is built by DeprecatedEnum.__new__
define_enum(def) ==
  /\ def.name \notin DOMAIN enums
  /\ IF AbstractMethodsEnforced /\ ~ def.own_deprecate
       THEN /\ enums' = enums
            /\ last' = [op |-> "define_enum", enum |-> def.name, error |-> "TypeError"]
       ELSE /\ enums' = [x \in DOMAIN enums \cup {def.name} |->
                           IF x = def.name THEN NewEnum(def) ELSE enums[x]]
            /\ last' = [op |-> "define_enum", enum |-> def.name, error |-> None]
  /\ UNCHANGED <<DEPRECATED_OBJECTS, emitted, requested, wrappers, ncalls, threads, host>>

\* `obj._show_deprecate` is truthy, with the variant that fires once per member
HookFiresOnce(en, m) == en.show_deprecate[m] # None /\ en.hook_runs[m] = 0

HookFires(en, m) == en.show_deprecate[m] # None

\* number of runs of the hook in one access that resolved to `name`
HookRuns(en, name, checks_isinstance) ==
  IF (checks_isinstance => name \in en.members) /\ HookFires(en, name) THEN 1 ELSE 0

\* the enumeration after an access of kind `op` resolved to member m and ran its
\* hook n times (`returned` and `kinds` are history: how often and through which
\* kinds of access the member was returned)
AfterAccess(en, m, n, op) ==
  [en EXCEPT !.hook_runs[m] = @ + n, !.returned[m] = @ + 1, !.kinds[m] = @ \cup {op}]

\* DeprecatedEnumMeta.__getattribute__(cls, name)
DeprecatedEnumMeta_getattribute(e, name) ==
  /\ ncalls < MaxCalls
  /\ e \in DOMAIN enums
  /\ name \in AttributeNames(enums[e])
  /\ LET en == enums[e]
         is_member == name \in en.members
         n == IF is_member THEN HookRuns(en, name, TRUE) ELSE 0
     IN  /\ enums' = IF is_member THEN [enums EXCEPT ![e] = AfterAccess(en, name, n, "getattribute")]
                     ELSE enums
         /\ last' = [op |-> "getattribute", enum |-> e, key |-> name, error |-> None,
                     returned |-> << name >>, is_member |-> is_member, hook_runs |-> n]
  /\ ncalls' = ncalls + 1
  /\ UNCHANGED <<DEPRECATED_OBJECTS, emitted, requested, wrappers, threads, host>>

\* DeprecatedEnumMeta.__getitem__(cls, name)
DeprecatedEnumMeta_getitem(e, name) ==
  /\ ncalls < MaxCalls
  /\ e \in DOMAIN enums
  /\ name \in LookupNames(enums[e])
  /\ LET en == enums[e]
     IN  IF name \in en.members
           THEN /\ enums' = [enums EXCEPT
                               ![e] = AfterAccess(en, name, HookRuns(en, name, FALSE),
                                                  "getitem")]
                /\ last' = [op |-> "getitem", enum |-> e, key |-> name, error |-> None,
                            returned |-> << name >>, is_member |-> TRUE,
                            hook_runs |-> HookRuns(en, name, FALSE)]
           ELSE /\ enums' = enums
                /\ last' = [op |-> "getitem", enum |-> e, key |-> name,
                            error |-> "KeyError", returned |-> << >>,
                            is_member |-> FALSE, hook_runs |-> 0]
  /\ ncalls' = ncalls + 1
  /\ UNCHANGED <<DEPRECATED_OBJECTS, emitted, requested, wrappers, threads, host>>

\* DeprecatedEnumMeta.__call__(cls, value)
DeprecatedEnumMeta_call(e, value) ==
  /\ ncalls < MaxCalls
  /\ e \in DOMAIN enums
  /\ LET en == enums[e]
         found == {m \in en.members : en.value[m] = value}
     IN  IF found # {}
           THEN LET m == CHOOSE x \in found : TRUE
                IN  /\ enums' = [enums EXCEPT
                                   ![e] = AfterAccess(en, m, HookRuns(en, m, TRUE), "call")]
                    /\ last' = [op |-> "call", enum |-> e, key |-> m, error |-> None,
                                returned |-> << m >>, is_member |-> TRUE,
                                hook_runs |-> HookRuns(en, m, TRUE)]
           ELSE /\ enums' = enums
                /\ last' = [op |-> "call", enum |-> e, key |-> "?",
                            error |-> "ValueError", returned |-> << >>,
                            is_member |-> FALSE, hook_runs |-> 0]
  /\ ncalls' = ncalls + 1
  /\ UNCHANGED <<DEPRECATED_OBJECTS, emitted, requested, wrappers, threads, host>>

(***************************************************************************)
(* warn_deprecated and the method/function wrappers run by two threads, one *)
(* statement at a time                                                      *)
(***************************************************************************)
Threads == {"t1", "t2"}

\* calls one thread makes at most
MaxThreadCalls == 2

\* no thread is inside a call (`n` is history: the calls the thread has begun)
ThreadsIdle ==
  [t \in Threads |-> [pc |-> "idle", obj |-> << >>, id |-> None, n |-> 0]]

\* the statements of warn_deprecated after the membership test, in program order
\* (`_DEPRECATED_OBJECTS.add(obj)`, then the message and `warnings.warn`), with the
\* variant that warns before it adds before it
WarnStatementsEmitFirst == << "warn", "add" >>

WarnStatements == << "add", "warn" >>

\* the statements of a wrapper inside `if not wrapper._warned:`, in program order
\* (`warnings.warn`, then `wrapper._warned = True`), with the variant that sets
\* the flag before it warns before it
WrapperStatementsSetFirst == << "set_warned", "wrapper_warn" >>

WrapperStatements == << "wrapper_warn", "set_warned" >>

\* the statement that follows pc in `order`, `exit` after the last one
After(order, pc, exit) ==
  LET i == CHOOSE j \in 1..Len(order) : order[j] = pc
  IN  IF i < Len(order) THEN order[i + 1] ELSE exit

\* whether thread t may enter a call: under serialized execution only while no
\* other thread is inside one
MayBegin(t) ==
  host.serialized => \A u \in Threads \ {t} : threads[u].pc = "idle"

\* thread t enters warn_deprecated and builds the record
thread_warn_deprecated(t, obj) ==
  /\ threads[t].pc = "idle"
  /\ threads[t].n < MaxThreadCalls
  /\ MayBegin(t)
  /\ threads' = [threads EXCEPT ![t] = [pc |-> "check", obj |-> <<obj>>, id |-> None,
                                        n |-> @.n + 1]]
  /\ requested' = requested \cup {obj}
  /\ UNCHANGED <<DEPRECATED_OBJECTS, emitted, wrappers, enums, last, ncalls, host>>

\* `if obj in _DEPRECATED_OBJECTS: return`
thread_check(t) ==
  /\ threads[t].pc = "check"
  /\ threads' = [threads EXCEPT ![t].pc =
                   IF AlreadyAdded(threads[t].obj[1], DEPRECATED_OBJECTS)
                     THEN "idle" ELSE WarnStatements[1]]
  /\ UNCHANGED <<DEPRECATED_OBJECTS, emitted, requested, wrappers, enums, last, ncalls,
                 host>>

\* `_DEPRECATED_OBJECTS.add(obj)`
thread_add(t) ==
  /\ threads[t].pc = "add"
  /\ DEPRECATED_OBJECTS' = DEPRECATED_OBJECTS \cup {threads[t].obj[1]}
  /\ threads' = [threads EXCEPT ![t].pc = After(WarnStatements, "add", "idle")]
  /\ UNCHANGED <<emitted, requested, wrappers, enums, last, ncalls, host>>

\* `warnings.warn(msg, DeprecationWarning, stacklevel=stack_level + 1)` with the
\* default stack_level: the host channel takes the warning, or raises (a filter
\* that turns warnings into errors) and the exception ends the call
thread_warn(t) ==
  /\ threads[t].pc = "warn"
  /\ \/ /\ emitted' = emitted \o << WarnDeprecatedWarning(threads[t].obj[1], 2) >>
        /\ threads' = [threads EXCEPT ![t].pc = After(WarnStatements, "warn", "idle")]
        /\ host' = host
     \/ /\ emitted' = emitted
        /\ threads' = [threads EXCEPT ![t].pc = "idle"]
        /\ host' = [host EXCEPT !.raised = TRUE]
  /\ UNCHANGED <<DEPRECATED_OBJECTS, requested, wrappers, enums, last, ncalls>>

\* thread t invokes the wrapper of a decorated method or function
thread_wrapper(t, id) ==
  /\ threads[t].pc = "idle"
  /\ threads[t].n < MaxThreadCalls
  /\ MayBegin(t)
  /\ id \in DOMAIN wrappers
  /\ threads' = [threads EXCEPT ![t] = [pc |-> "flag_check", obj |-> << >>, id |-> id,
                                        n |-> @.n + 1]]
  /\ wrappers' = [wrappers EXCEPT ![id].calls = @ + 1]
  /\ UNCHANGED <<DEPRECATED_OBJECTS, emitted, requested, enums, last, ncalls, host>>

\* `if not wrapper._warned:`
thread_flag_check(t) ==
  /\ threads[t].pc = "flag_check"
  /\ threads' = [threads EXCEPT ![t].pc =
                   IF ShouldWarn(wrappers[threads[t].id])
                     THEN WrapperStatements[1] ELSE "body"]
  /\ UNCHANGED <<DEPRECATED_OBJECTS, emitted, requested, wrappers, enums, last, ncalls,
                 host>>

\* `warnings.warn(msg, DeprecationWarning, stacklevel=stack_level)`: taken, or
\* raised by the host channel
thread_wrapper_warn(t) ==
  /\ threads[t].pc = "wrapper_warn"
  /\ \/ /\ emitted' = emitted \o << WrapperWarning(wrappers[threads[t].id]) >>
        /\ threads' = [threads EXCEPT ![t].pc =
                         After(WrapperStatements, "wrapper_warn", "body")]
        /\ host' = host
     \/ /\ emitted' = emitted
        /\ threads' = [threads EXCEPT ![t].pc = "idle"]
        /\ host' = [host EXCEPT !.raised = TRUE]
  /\ UNCHANGED <<DEPRECATED_OBJECTS, requested, wrappers, enums, last, ncalls>>

\* `wrapper._warned = True`
thread_set_warned(t) ==
  /\ threads[t].pc = "set_warned"
  /\ wrappers' = [wrappers EXCEPT ![threads[t].id].warned = TRUE]
  /\ threads' = [threads EXCEPT ![t].pc = After(WrapperStatements, "set_warned", "body")]
  /\ UNCHANGED <<DEPRECATED_OBJECTS, emitted, requested, enums, last, ncalls, host>>

\* `return method(self, *method_args, **method_kwargs)` / `return func(...)`
thread_body(t) ==
  /\ threads[t].pc = "body"
  /\ threads' = [threads EXCEPT ![t].pc = "idle"]
  /\ UNCHANGED <<DEPRECATED_OBJECTS, emitted, requested, wrappers, enums, last, ncalls,
                 host>>

(***************************************************************************)
(* Specifications.                                                         *)
(***************************************************************************)
\* the state after the module is imported
Init ==
  /\ DEPRECATED_OBJECTS = {}
  /\ emitted = << >>
  /\ requested = {}
  /\ wrappers = [x \in {} |-> FALSE]
  /\ enums = [x \in {} |-> FALSE]
  /\ last = [op |-> "none"]
  /\ ncalls = 0
  /\ threads = ThreadsIdle
  /\ host = [serialized |-> TRUE, raised |-> FALSE]

WarnDeprecated ==
  \E obj \in WarnInputs, stack_level \in StackLevels : warn_deprecated(obj, stack_level)

WarnDeprecatedSameTypeName ==
  \E obj \in WarnInputs :
    /\ obj.old_type = obj.new_type
    /\ obj.old_name = obj.new_name
    /\ warn_deprecated_same_type_name(obj.version, obj.new_type, obj.new_name,
                                      obj.additional_msg, 2)

DeprecateArgumentsCall ==
  \E w \in ArgDecorated, c \in ArgCalls :
    deprecate_arguments_wrapper(w, c.args, c.kwargs)

\* warn_deprecated called with the version and names of a decorated callable
WarnDeprecatedDecorated == \E d \in Decorated : warn_deprecated(DecoratedObject(d), 2)

Decorate == \E d \in Decorated : decorator(d)

WrapperCall ==
  \E id \in DOMAIN wrappers, args \in ArgLists :
    \E self \in (IF wrappers[id].d.kind = "METHOD" THEN Receivers ELSE {None}) :
      wrapper(id, self, args, [k \in {} |-> 0])

DefineEnum == \E def \in EnumDefs : define_enum(def)

EnumAttribute ==
  \E e \in DOMAIN enums : \E name \in AttributeNames(enums[e]) :
    DeprecatedEnumMeta_getattribute(e, name)

EnumItem ==
  \E e \in DOMAIN enums : \E name \in LookupNames(enums[e]) :
    DeprecatedEnumMeta_getitem(e, name)

EnumCall ==
  \E e \in DOMAIN enums, value \in LookupValues : DeprecatedEnumMeta_call(e, value)

\* every first call of warn_deprecated: all types, the optional arguments absent,
\* empty or given
RenderObjects ==
  { DeprecatedObject(version, old_type, old_name, new_type, new_name, additional_msg) :
      version \in Versions, old_type \in DeprecatedType, old_name \in OldNames,
      new_type \in {None} \cup DeprecatedType, new_name \in NewNames \cup {""},
      additional_msg \in AdditionalMsgs }

WarnDeprecatedFirst ==
  /\ ncalls = 0
  /\ \E obj \in RenderObjects, stack_level \in StackLevels :
       warn_deprecated(obj, stack_level)

NextRender == WarnDeprecatedFirst
SpecRender == Init /\ [][NextRender]_vars

\* the emitter alone
NextWarn == WarnDeprecated \/ WarnDeprecatedSameTypeName
SpecWarn == Init /\ [][NextWarn]_vars

\* the argument-rename decorator alone
NextArgs == DeprecateArgumentsCall
SpecArgs == Init /\ [][NextArgs]_vars

\* the method/function decorators beside the emitter
NextWrap == Decorate \/ WrapperCall \/ WarnDeprecatedDecorated
SpecWrap == Init /\ [][NextWrap]_vars

\* the enumeration alone
NextEnum == DefineEnum \/ EnumAttribute \/ EnumItem \/ EnumCall
SpecEnum == Init /\ [][NextEnum]_vars

\* calls of the argument wrappers h (two independent pairs) and k (chained
\* pairs) that pass a positional argument too
DeprecateArgumentsCallPositional ==
  \E w \in ArgDecorated, c \in ArgCalls :
    /\ w.func_name \in {"h", "k"}
    /\ c.args # << >>
    /\ deprecate_arguments_wrapper(w, c.args, c.kwargs)

\* the three kinds of wrappers side by side
NextCalls == Decorate \/ WrapperCall \/ DeprecateArgumentsCallPositional
SpecCalls == Init /\ [][NextCalls]_vars

\* the state once the modules that decorate the callables and define the
\* enumerations have been imported, before any call
InitImported ==
  /\ DEPRECATED_OBJECTS = {}
  /\ emitted = << >>
  /\ requested = {}
  /\ wrappers = [id \in {d.id : d \in Decorated} |->
                   NewWrapper(CHOOSE d \in Decorated : d.id = id)]
  /\ enums = [e \in {def.name : def \in EnumDefs} |->
                NewEnum(CHOOSE def \in EnumDefs : def.name = e)]
  /\ last = [op |-> "none"]
  /\ ncalls = 0
  /\ threads = ThreadsIdle
  /\ host = [serialized |-> TRUE, raised |-> FALSE]

\* h(7, a=6) and k(7, a=6): calls of argument wrappers that rename
DeprecateArgumentsCallRename ==
  \E w \in ArgDecorated :
    /\ w.func_name \in {"h", "k"}
    /\ deprecate_arguments_wrapper(w, <<7>>, [x \in {"a"} |-> 6])

\* invocations of the method and function wrappers without arguments
WrapperCallPlain ==
  \E id \in DOMAIN wrappers :
    wrapper(id, IF wrappers[id].d.kind = "METHOD" THEN "x" ELSE None, << >>,
            [k \in {} |-> 0])

\* E.A, E["A"] and E(1) on each enumeration
EnumAttributeA == \E e \in DOMAIN enums : DeprecatedEnumMeta_getattribute(e, "A")

EnumItemA == \E e \in DOMAIN enums : DeprecatedEnumMeta_getitem(e, "A")

EnumCallA == \E e \in DOMAIN enums : DeprecatedEnumMeta_call(e, 1)

\* every kind of public call, on few inputs
NextAll ==
  \/ WarnDeprecatedDecorated
  \/ WarnDeprecatedSameTypeName
  \/ DeprecateArgumentsCallRename
  \/ WrapperCallPlain
  \/ EnumAttributeA
  \/ EnumItemA
  \/ EnumCallA
SpecAll == InitImported /\ [][NextAll]_vars

\* two threads; the host serializes the calls or lets them interleave
InitThreads ==
  /\ DEPRECATED_OBJECTS = {}
  /\ emitted = << >>
  /\ requested = {}
  /\ wrappers = [id \in {d.id : d \in Decorated} |->
                   NewWrapper(CHOOSE d \in Decorated : d.id = id)]
  /\ enums = [x \in {} |-> FALSE]
  /\ last = [op |-> "none"]
  /\ ncalls = 0
  /\ threads = ThreadsIdle
  /\ host \in [serialized : BOOLEAN, raised : {FALSE}]

ThreadWarnDeprecated ==
  \E t \in Threads, d \in Decorated : thread_warn_deprecated(t, DecoratedObject(d))

ThreadCheck == \E t \in Threads : thread_check(t)

ThreadAdd == \E t \in Threads : thread_add(t)

ThreadWarn == \E t \in Threads : thread_warn(t)

\* invocations of one method wrapper and of the function wrapper
ThreadWrapper == \E t \in Threads, id \in {"A.m", "f"} : thread_wrapper(t, id)

ThreadFlagCheck == \E t \in Threads : thread_flag_check(t)

ThreadWrapperWarn == \E t \in Threads : thread_wrapper_warn(t)

ThreadSetWarned == \E t \in Threads : thread_set_warned(t)

ThreadBody == \E t \in Threads : thread_body(t)

NextThreads ==
  \/ ThreadWarnDeprecated
  \/ ThreadCheck
  \/ ThreadAdd
  \/ ThreadWarn
  \/ ThreadWrapper
  \/ ThreadFlagCheck
  \/ ThreadWrapperWarn
  \/ ThreadSetWarned
  \/ ThreadBody
SpecThreads == InitThreads /\ [][NextThreads]_vars

\* every public operation
Next ==
  \/ WarnDeprecated
  \/ WarnDeprecatedSameTypeName
  \/ DeprecateArgumentsCall
  \/ Decorate
  \/ WrapperCall
  \/ DefineEnum
  \/ EnumAttribute
  \/ EnumItem
  \/ EnumCall
Spec == Init /\ [][Next]_vars

(***************************************************************************)
(* Properties.                                                             *)
(***************************************************************************)
\* positions of the log whose warning came from `via` and is about `obj`
EmittedAbout(via, obj) ==
  {i \in 1..Len(emitted) : emitted[i].via = via /\ emitted[i].about = obj}

\* positions of the log whose warning came from the wrapper of callable `id`
EmittedBy(id) ==
  {i \in 1..Len(emitted) :
     emitted[i].via \in {"deprecate_method", "deprecate_function"}
     /\ emitted[i].callable = id}

\* C1 (Dedup-by-identity): from the empty Registry, a warn_deprecated call whose
\* six-field record was passed to an earlier call changes neither the log nor the
\* Registry; a call whose record was not passed before (in particular one that
\* differs from an earlier record in a single field) appends exactly one warning,
\* about that record; so every record requested any number of times has exactly
\* one warning in the log, and a record never requested has none.
C1_DedupByIdentity ==
  /\ [](\A obj \in WarnInputs :
          Cardinality(EmittedAbout("warn_deprecated", obj))
            = IF obj \in requested THEN 1 ELSE 0)
  /\ [][(last'.op = "warn_deprecated" /\ ncalls' = ncalls + 1) =>
          IF last'.obj \in requested
            THEN /\ emitted' = emitted
                 /\ DEPRECATED_OBJECTS' = DEPRECATED_OBJECTS
                 /\ UNCHANGED <<wrappers, enums>>
            ELSE /\ Len(emitted') = Len(emitted) + 1
                 /\ SubSeq(emitted', 1, Len(emitted)) = emitted
                 /\ emitted'[Len(emitted')].about = last'.obj
                 /\ emitted'[Len(emitted')].via = "warn_deprecated"]_vars

\* C1 witness: three calls, one of them repeating an earlier record and emitting
\* nothing, the two warnings being about records that differ in one field only
C1_Witness ==
  /\ ncalls = 3
  /\ last.op = "warn_deprecated"
  /\ last.nwarn = 0
  /\ Len(emitted) = 2
  /\ Cardinality(DiffFields(emitted[1].about, emitted[2].about)) = 1

\* the pairs (old_arg, new_arg) of the kwarg_map of the last deprecate_arguments call
LastPairs == {last.wrapper.kwarg_map[i] : i \in 1..Len(last.wrapper.kwarg_map)}

\* C2 (Argument-rename dedup goes through the shared Registry): every renamed
\* argument (version, old_arg, new_arg, additional_msg) a deprecate_arguments
\* wrapper warned about has at most one warning in the log, over all wrappers and
\* calls, and its record (version, argument, old_arg, argument, new_arg,
\* additional_msg) is in the Registry.
C2_ArgumentDedupViaRegistry ==
  \A i \in 1..Len(emitted) :
    emitted[i].via = "deprecate_arguments" =>
      /\ Cardinality(EmittedAbout("deprecate_arguments", emitted[i].about)) <= 1
      /\ emitted[i].about \in DEPRECATED_OBJECTS

\* C3 (Conflict rejection): a call of a deprecate_arguments wrapper whose supplied
\* keyword arguments hold both old_arg and new_arg of some pair of kwarg_map raises
\* the usage error, and the wrapped callable's body does not run.
C3_ConflictRejection ==
  (/\ last.op = "deprecate_arguments"
   /\ \E pair \in LastPairs :
        pair[1] \in DOMAIN last.kwargs /\ pair[2] \in DOMAIN last.kwargs)
  => (last.raised /\ last.body_runs = << >>)

\* C4 (Error before warning): a call of a deprecate_arguments wrapper that ends in
\* the usage error has emitted no deprecation warning.
C4_ErrorBeforeWarning ==
  (last.op = "deprecate_arguments" /\ last.raised) => last.nwarn = 0

\* C5 (Rename correctness): with kwarg_map = {old: new}, a call that passes old = v
\* and not new raises nothing and runs the wrapped callable once, with the same
\* positional arguments, with new = v, without old, with every other keyword
\* argument as supplied; the wrapper returns what the callable returns for them.
C5_RenameCorrectness ==
  (last.op = "deprecate_arguments" /\ Len(last.wrapper.kwarg_map) = 1) =>
    LET old == last.wrapper.kwarg_map[1][1]
        new == last.wrapper.kwarg_map[1][2]
    IN  (old \in DOMAIN last.kwargs /\ new \notin DOMAIN last.kwargs) =>
          /\ ~ last.raised
          /\ Len(last.body_runs) = 1
          /\ last.body_runs[1].args = last.args
          /\ DOMAIN last.body_runs[1].kwargs = (DOMAIN last.kwargs \ {old}) \cup {new}
          /\ old \notin DOMAIN last.body_runs[1].kwargs
          /\ last.body_runs[1].kwargs[new] = last.kwargs[old]
          /\ \A k \in DOMAIN last.kwargs \ {old} :
               last.body_runs[1].kwargs[k] = last.kwargs[k]
          /\ last.ret = << Func(last.wrapper.func_name, last.args,
                                last.body_runs[1].kwargs) >>

\* C5 witness: f(7, a=6, c=9) with kwarg_map {a: b} reached the body with b=6
C5_Witness ==
  /\ last.op = "deprecate_arguments"
  /\ last.wrapper.kwarg_map = << <<"a", "b">> >>
  /\ last.args = <<7>>
  /\ DOMAIN last.kwargs = {"a", "c"}
  /\ Len(last.body_runs) = 1
  /\ last.body_runs[1].kwargs["b"] = last.kwargs["a"]
  /\ last.nwarn = 1

\* C6 (No-kwargs fast path): a call of a deprecate_arguments wrapper with no
\* keyword arguments, whatever its kwarg_map, appends nothing to the log, leaves the
\* Registry as it is, raises nothing, and runs the wrapped callable once with the
\* positional arguments as supplied and no keyword arguments.
C6_NoKwargsFastPath ==
  [][(/\ last'.op = "deprecate_arguments"
      /\ ncalls' = ncalls + 1
      /\ DOMAIN last'.kwargs = {})
     => (/\ emitted' = emitted
         /\ DEPRECATED_OBJECTS' = DEPRECATED_OBJECTS
         /\ ~ last'.raised
         /\ last'.body_runs = << [self |-> None, args |-> last'.args,
                                  kwargs |-> last'.kwargs] >>
         /\ last'.ret = << Func(last'.wrapper.func_name, last'.args, last'.kwargs) >>)]_vars

\* C6 witness: after a call that warned, a two-pair wrapper is called with one
\* positional argument and no keyword argument, and its body runs
C6_Witness ==
  /\ last.op = "deprecate_arguments"
  /\ Len(last.wrapper.kwarg_map) = 2
  /\ DOMAIN last.kwargs = {}
  /\ last.args = <<7>>
  /\ Len(last.body_runs) = 1
  /\ ncalls = 2
  /\ Len(emitted) = 1

\* C7 (Once-per-callable): each callable wrapped by deprecate_method or
\* deprecate_function has its flag false when wrapped, true from its first
\* invocation on and never false again; its first invocation appends exactly one
\* warning, its own, and no later invocation appends any; so after k >= 1
\* invocations the log holds exactly one warning of that wrapper, whatever the
\* flags and warnings of the other wrappers, identical messages included.
C7_OncePerCallable ==
  /\ [](\A id \in DOMAIN wrappers :
          /\ Cardinality(EmittedBy(id)) = IF wrappers[id].calls >= 1 THEN 1 ELSE 0
          /\ wrappers[id].warned = (wrappers[id].calls >= 1))
  /\ [][/\ \A id \in DOMAIN wrappers :
             id \in DOMAIN wrappers' /\ (wrappers[id].warned => wrappers'[id].warned)
        /\ \A id \in DOMAIN wrappers' \ DOMAIN wrappers : ~ wrappers'[id].warned
        /\ (last'.op = "wrapper" /\ ncalls' = ncalls + 1) =>
             IF wrappers[last'.wrapper].calls = 0
               THEN /\ Len(emitted') = Len(emitted) + 1
                    /\ SubSeq(emitted', 1, Len(emitted)) = emitted
                    /\ emitted'[Len(emitted')].callable = last'.wrapper
                    /\ emitted'[Len(emitted')].msg = wrappers[last'.wrapper].msg
               ELSE emitted' = emitted]_vars

\* C7 witness: method m of A was invoked twice and method m of B once; the log
\* holds two warnings, one of each wrapper, with the same text
C7_Witness ==
  /\ {"A.m", "B.m"} \subseteq DOMAIN wrappers
  /\ wrappers["A.m"].calls = 2
  /\ wrappers["B.m"].calls = 1
  /\ Len(emitted) = 2
  /\ emitted[1].msg = emitted[2].msg
  /\ emitted[1].callable # emitted[2].callable

\* C8 (The method/function decorator path is independent of the Registry): an
\* invocation of a wrapped method or function leaves the Registry as it is, and
\* whether it warns depends only on its being the wrapper's first invocation, not
\* on the Registry; whether a warn_deprecated call warns depends only on its record
\* having been passed to warn_deprecated before, not on any wrapper's invocations.
C8_WrapperIndependentOfRegistry ==
  [][/\ (last'.op = "wrapper" /\ ncalls' = ncalls + 1) =>
          /\ DEPRECATED_OBJECTS' = DEPRECATED_OBJECTS
          /\ Len(emitted') = Len(emitted)
                               + (IF wrappers[last'.wrapper].calls = 0 THEN 1 ELSE 0)
     /\ (last'.op = "warn_deprecated" /\ ncalls' = ncalls + 1) =>
          /\ wrappers' = wrappers
          /\ Len(emitted') = Len(emitted) + (IF last'.obj \in requested THEN 0 ELSE 1)]_vars

\* C8 witness: a wrapped method warned, then warn_deprecated with the same version
\* and names warned, then a second wrapper with the same version and names warned
\* on its first invocation although that record was in the Registry
C8_Witness ==
  /\ Len(emitted) = 3
  /\ emitted[1].via = "deprecate_method"
  /\ emitted[2].via = "warn_deprecated"
  /\ emitted[3].via = "deprecate_method"
  /\ emitted[2].about = emitted[1].about
  /\ emitted[3].about = emitted[2].about
  /\ emitted[3].about \in DEPRECATED_OBJECTS
  /\ last.op = "wrapper"

\* C9 (Enumeration access warns every time): every access through the type that
\* resolves to a member (attribute read, lookup by name, construction by value)
\* runs the member's hook exactly once and returns the member, so a member
\* returned n times has had its hook run n times.
C9_EnumAccessWarnsEveryTime ==
  /\ \A e \in DOMAIN enums : \A m \in enums[e].members :
       enums[e].hook_runs[m] = enums[e].returned[m]
  /\ (last.op \in {"getattribute", "getitem", "call"} /\ last.is_member) =>
       (last.hook_runs = 1 /\ last.returned = << last.key >>)

\* C9 witness: member A was reached once by each kind of access, the last one a
\* construction by value, and its hook has run three times
C9_Witness ==
  /\ "WithHook" \in DOMAIN enums
  /\ enums["WithHook"].kinds["A"] = {"getattribute", "getitem", "call"}
  /\ enums["WithHook"].hook_runs["A"] = 3
  /\ last.op = "call"

\* C10 (Definition error): defining a variant of DeprecatedEnum that does not
\* supply deprecate() ends in a definition error, and the enumeration and its
\* members never exist.
C10_DefinitionError ==
  /\ \A def \in EnumDefs : ~ def.own_deprecate => def.name \notin DOMAIN enums
  /\ (/\ last.op = "define_enum"
      /\ \E def \in EnumDefs : def.name = last.enum /\ ~ def.own_deprecate)
     => last.error # None

\* the warnings of the log that warn_deprecated emitted about BaseObject, the call
\* warn_deprecated("0.5.0", CLASS, "Foo", CLASS, "Bar", "See docs.")
BaseWarnings ==
  {emitted[i] : i \in EmittedAbout("warn_deprecated", BaseObject)}

\* C11 (Message format example), as the spec states it: the warning of the call
\* warn_deprecated("0.5.0", CLASS, "Foo", CLASS, "Bar", "See docs.") reads
\* "... Instead use the Bar class See docs." with one period at its end.
C11_MessageExampleOnePeriod ==
  \A w \in BaseWarnings :
    w.msg = "The Foo class is deprecated as of version 0.5.0 and will be removed no sooner than 3 months after the release. Instead use the Bar class See docs."

\* C11 as amended: the warning of that call reads "... Instead use the Bar class
\* See docs.." : the terminating period follows the period that ends additional_msg.
C11_MessageExampleAmended ==
  \A w \in BaseWarnings :
    w.msg = "The Foo class is deprecated as of version 0.5.0 and will be removed no sooner than 3 months after the release. Instead use the Bar class See docs.."

\* C11 witness: that call was made and its warning is in the log
C11_Witness ==
  /\ BaseObject \in requested
  /\ Cardinality(BaseWarnings) = 1
  /\ last.op = "warn_deprecated"
  /\ last.obj = BaseObject
  /\ last.nwarn = 1

\* C12 (warn_deprecated_same_type_name is warn_deprecated with old = new):
\* a call warn_deprecated_same_type_name(version, t, n, additional_msg, s) changes
\* the Registry and the log exactly as warn_deprecated(version, t, n, t, n,
\* additional_msg, s + 1) would in the same state: it uses the record
\* (version, t, n, t, n, additional_msg), warns iff that record was passed to
\* neither operation before, with the text warn_deprecated renders for it and the
\* stack level of warn_deprecated called with s + 1; and a warn_deprecated call
\* with a record that was passed to either operation before emits nothing.
C12_SameTypeNameEquivalent ==
  [][/\ (last'.op = "warn_deprecated_same_type_name" /\ ncalls' = ncalls + 1) =>
          LET obj == last'.obj
              s == last'.stack_level
              direct == WarnDeprecatedEmits(DEPRECATED_OBJECTS, obj, s + 1)
          IN  /\ obj.old_type = obj.new_type /\ obj.old_name = obj.new_name
              /\ DEPRECATED_OBJECTS' = WarnDeprecatedRegistry(DEPRECATED_OBJECTS, obj)
              /\ emitted' = emitted \o direct
              /\ (Len(emitted') = Len(emitted) + 1) = (obj \notin requested)
              /\ obj \notin requested =>
                   /\ emitted'[Len(emitted')].stacklevel = s + 2
                   /\ emitted'[Len(emitted')].about = obj
                   /\ emitted'[Len(emitted')].msg
                        = WarnDeprecatedMsg(obj.version, obj.old_type, obj.old_name,
                                            obj.old_type, obj.old_name,
                                            obj.additional_msg)
     /\ (last'.op = "warn_deprecated" /\ ncalls' = ncalls + 1
         /\ last'.obj \in requested) => emitted' = emitted]_vars

\* C12 witness: warn_deprecated_same_type_name warned about a record, then
\* warn_deprecated called with the same record emitted nothing
C12_Witness ==
  /\ last.op = "warn_deprecated"
  /\ last.nwarn = 0
  /\ last.obj.old_name = last.obj.new_name
  /\ Len(emitted) = 1
  /\ emitted[1].about = last.obj
  /\ emitted[1].stacklevel = 4
  /\ ncalls = 2

\* C13 (Wrapper transparency): an invocation of a wrapper made by
\* deprecate_arguments, deprecate_method or deprecate_function that does not end
\* in the usage error runs the wrapped callable exactly once, with the caller's
\* positional arguments (and, for a method, the caller's receiver), and returns
\* what that run returned, whether or not the invocation warned.
C13_WrapperTransparency ==
  /\ (last.op = "deprecate_arguments" /\ ~ last.raised) =>
       /\ Len(last.body_runs) = 1
       /\ last.body_runs[1].args = last.args
       /\ last.ret = << Func(last.wrapper.func_name, last.body_runs[1].args,
                             last.body_runs[1].kwargs) >>
  /\ last.op = "wrapper" =>
       /\ Len(last.body_runs) = 1
       /\ last.body_runs[1] = [self |-> last.self, args |-> last.args,
                               kwargs |-> last.kwargs]
       /\ last.ret = << Func(last.wrapper, <<last.self>> \o last.args, last.kwargs) >>

\* C13 witness: after an argument wrapper warned and ran its callable, a method
\* wrapper that had warned before is invoked on receiver y with a positional
\* argument, stays silent and returns the method's result
C13_Witness ==
  /\ last.op = "wrapper"
  /\ last.nwarn = 0
  /\ last.self = "y"
  /\ last.args = <<7>>
  /\ last.ret = << Func(last.wrapper, <<"y", 7>>, last.kwargs) >>
  /\ wrappers[last.wrapper].d.kind = "METHOD"
  /\ \E i \in 1..Len(emitted) : emitted[i].via = "deprecate_arguments"
  /\ \E i \in 1..Len(emitted) : emitted[i].callable = last.wrapper

\* C14 (Registry monotonicity): the Registry is empty at the start; no public
\* call (warn_deprecated, warn_deprecated_same_type_name, an invocation of a
\* decorated callable, an enumeration access) removes a record from it; and a
\* warn_deprecated or warn_deprecated_same_type_name call whose record is already
\* in it leaves it unchanged.
C14_RegistryMonotone ==
  /\ DEPRECATED_OBJECTS = {}
  /\ [][/\ DEPRECATED_OBJECTS \subseteq DEPRECATED_OBJECTS'
        /\ (/\ ncalls' = ncalls + 1
            /\ last'.op \in {"warn_deprecated", "warn_deprecated_same_type_name"}
            /\ last'.obj \in DEPRECATED_OBJECTS)
           => DEPRECATED_OBJECTS' = DEPRECATED_OBJECTS]_vars

\* C14 witness: a record was registered, a wrapper was invoked, and then
\* warn_deprecated was called with the registered record again
C14_Witness ==
  /\ last.op = "warn_deprecated"
  /\ last.nwarn = 0
  /\ DEPRECATED_OBJECTS = {last.obj}
  /\ \E id \in DOMAIN wrappers : wrappers[id].calls = 1
  /\ ncalls = 3

\* positions of the log whose warning came from warn_deprecated
EmittedByWarnDeprecated ==
  {i \in 1..Len(emitted) : emitted[i].via = "warn_deprecated"}

\* C15 (Data race without serialization): when calls are serialized, no record
\* gets more than one warning from warn_deprecated and no wrapper flag more than
\* one warning from its wrapper; when two threads interleave statement by
\* statement, both can pass `obj in _DEPRECATED_OBJECTS` before either adds, and
\* both can read `_warned` false before either sets it, so a state with two
\* warnings for one record and for one flag is reached (the witness).
C15_DuplicatesOnlyWhenInterleaved ==
  host.serialized =>
    /\ \A obj \in requested : Cardinality(EmittedAbout("warn_deprecated", obj)) <= 1
    /\ \A id \in DOMAIN wrappers : Cardinality(EmittedBy(id)) <= 1

\* C15 witness: interleaved threads have produced two warnings for one record
\* of warn_deprecated and two warnings for the flag of one wrapper
C15_Witness ==
  /\ ~ host.serialized
  /\ \E obj \in requested : Cardinality(EmittedAbout("warn_deprecated", obj)) = 2
  /\ \E id \in DOMAIN wrappers :
       /\ Cardinality(EmittedBy(id)) = 2
       /\ wrappers[id].calls = 2
  /\ \A t \in Threads : threads[t].pc = "idle"

\* C20 (Emission and dedup state under serialized execution): in every state,
\* also between two statements of a call, each warning emitted through
\* warn_deprecated has its record in the Registry, the number of such warnings
\* is at most the size of the Registry, and equal to it when no call is under
\* way and the host channel has never raised; and a wrapper whose flag is true
\* has emitted its warning.
C20_EmissionConsistent ==
  host.serialized =>
    /\ \A i \in EmittedByWarnDeprecated : emitted[i].about \in DEPRECATED_OBJECTS
    /\ Cardinality(EmittedByWarnDeprecated) <= Cardinality(DEPRECATED_OBJECTS)
    /\ (~ host.raised /\ \A t \in Threads : threads[t].pc = "idle") =>
         Cardinality(EmittedByWarnDeprecated) = Cardinality(DEPRECATED_OBJECTS)
    /\ \A id \in DOMAIN wrappers : wrappers[id].warned => EmittedBy(id) # {}

\* C20 witness: serialized calls after which the Registry holds two records, the
\* host channel raised on one of their warnings and took the other, and a
\* wrapper has warned and set its flag
C20_Witness ==
  /\ host.serialized
  /\ host.raised
  /\ Cardinality(DEPRECATED_OBJECTS) = 2
  /\ Cardinality(EmittedByWarnDeprecated) = 1
  /\ \E id \in DOMAIN wrappers : wrappers[id].warned /\ Cardinality(EmittedBy(id)) = 1
  /\ \A t \in Threads : threads[t].pc = "idle"

\* the text the section 4.1 rule gives for a record, an optional string being
\* present when it is given and not empty
RuleText(o) ==
  LET base == "The " \o o.old_name \o " " \o TypeValue(o.old_type)
                \o " is deprecated as of version " \o o.version
                \o " and will be removed no sooner than 3 months after the release"
      instead == IF o.new_type # None /\ o.new_name \notin {None, ""}
                   THEN ". Instead use the " \o o.new_name \o " " \o TypeValue(o.new_type)
                   ELSE ""
      more == IF o.additional_msg \notin {None, ""} THEN " " \o o.additional_msg ELSE ""
  IN  base \o instead \o more \o "."

\* C16 (Message rendering rule of warn_deprecated): the emitted text is "The
\* {old_name} {old_type} is deprecated as of version {version} and will be
\* removed no sooner than 3 months after the release", then ". Instead use the
\* {new_name} {new_type}" iff new_type and new_name are both present, then a
\* space and additional_msg iff additional_msg is present, then one terminating
\* period; the type words are the DeprecatedType values. An optional string
\* counts as present when it is given and not empty.
C16_RenderingRule ==
  \A i \in EmittedByWarnDeprecated : emitted[i].msg = RuleText(emitted[i].about)

\* C16 witness: a first call with every optional part given, for a method
\* replaced by a class
C16_Witness ==
  /\ last.op = "warn_deprecated"
  /\ last.obj = DeprecatedObject("0.6.0", "METHOD", "Baz", "CLASS", "Bar", "See docs.")
  /\ Len(emitted) = 1
  /\ emitted[1].msg = "The Baz method is deprecated as of version 0.6.0 and will be removed no sooner than 3 months after the release. Instead use the Bar class See docs.."

\* C17 (Argument warning text): every warning a deprecate_arguments wrapper emits
\* for a pair (old_arg, new_arg) carries exactly the text warn_deprecated renders
\* for (version, ARGUMENT, old_arg, ARGUMENT, new_arg, additional_msg), with
\* nothing before or after it.
C17_ArgumentMessageAsWarnDeprecated ==
  \A i \in 1..Len(emitted) :
    emitted[i].via = "deprecate_arguments" =>
      LET o == emitted[i].about
      IN  emitted[i].msg = WarnDeprecatedMsg(o.version, "ARGUMENT", o.old_name,
                                             "ARGUMENT", o.new_name, o.additional_msg)

\* the pairs (old_arg, new_arg) the last deprecate_arguments call warned about
LastWarnedPairs ==
  { << last.warns[i].about.old_name, last.warns[i].about.new_name >> :
      i \in 1..Len(last.warns) }

\* C18 (Per-pair processing in map order): in a deprecate_arguments call that
\* does not end in the usage error, the pairs renamed and warned about are exactly
\* the pairs whose old_arg is among the keyword arguments the caller supplied; a
\* pair whose old_arg the caller did not supply is skipped, also when an earlier
\* pair's rename inserted that name.
C18_PairsOfSuppliedOldArgs ==
  (last.op = "deprecate_arguments" /\ ~ last.raised) =>
    /\ LastWarnedPairs = {pair \in LastPairs : pair[1] \in DOMAIN last.kwargs}
    /\ last.nwarn = Cardinality({pair \in LastPairs : pair[1] \in DOMAIN last.kwargs})
    /\ \A pair \in LastPairs :
         pair[1] \notin DOMAIN last.kwargs =>
           (pair[2] \in DOMAIN last.body_runs[1].kwargs <=> pair[2] \in DOMAIN last.kwargs)

\* C19 (No supplied value is lost): in a deprecate_arguments call whose rename
\* pass ends without the usage error, the keyword arguments forwarded to the
\* wrapped callable are as many as the caller supplied and carry the same values
\* as often, and every supplied key that is no old_arg of kwarg_map is forwarded
\* under the same key with the same value.
C19_NoValueLost ==
  (last.op = "deprecate_arguments" /\ ~ last.raised) =>
    LET supplied == last.kwargs
        forwarded == last.body_runs[1].kwargs
    IN  /\ Cardinality(DOMAIN forwarded) = Cardinality(DOMAIN supplied)
        /\ \A v \in {supplied[k] : k \in DOMAIN supplied}
                 \cup {forwarded[k] : k \in DOMAIN forwarded} :
             Cardinality({k \in DOMAIN forwarded : forwarded[k] = v})
               = Cardinality({k \in DOMAIN supplied : supplied[k] = v})
        /\ \A k \in DOMAIN supplied :
             k \notin {pair[1] : pair \in LastPairs} =>
               (k \in DOMAIN forwarded /\ forwarded[k] = supplied[k])

\* C19 witness: p(a=5, b=6, d=9) with kwarg_map {b: c, a: b} forwarded b=5, c=6, d=9
C19_Witness ==
  /\ last.op = "deprecate_arguments"
  /\ last.wrapper.func_name = "p"
  /\ ~ last.raised
  /\ last.nwarn = 2
  /\ DOMAIN last.kwargs = {"a", "b", "d"}
  /\ Len(last.body_runs) = 1
  /\ DOMAIN last.body_runs[1].kwargs = {"b", "c", "d"}
  /\ last.body_runs[1].kwargs["b"] = last.kwargs["a"]
  /\ last.body_runs[1].kwargs["c"] = last.kwargs["b"]
  /\ last.body_runs[1].kwargs["d"] = last.kwargs["d"]

====
